---- MODULE Spec2Model ----
(***************************************************************************)
(* Model of scripts/updateLicense.py: the license-header normalizer        *)
(* update_go_license and its driver main.                                  *)
(*                                                                         *)
(* A file is a sequence of tokens (the model's characters).  A token is    *)
(* a line terminator character, one of the substrings the program looks    *)
(* for (the copyright notice with its year, the holder name, the           *)
(* generated-file marker) or a piece of other text.  A line is a sequence  *)
(* of tokens, a list of lines is a sequence of lines, a path is the pair   *)
(* <<stem, suffix>>.                                                       *)
(***************************************************************************)
EXTENDS Integers, Sequences, FiniteSets, TLC

VARIABLES
    files,    \* the file system: path -> content, DOMAIN = existing paths
    argv,     \* sys.argv[1:]
    i,        \* position of the loop of main in argv (call count in SpecFn)
    pc,       \* "start", "loop", "done", "exit1", "raised"; "fn" in SpecFn
    stdout,   \* what print wrote, one element per line
    logged,   \* paths logger.error reported
    error,    \* the exception that left the last call / terminated main
    calls,    \* history: one record per call of update_go_license
    files0    \* history: the file system at process start

vars == <<files, argv, i, pc, stdout, logged, error, calls, files0>>

----------------------------------------------------------------------------
(* Bounds *)

MaxBody == 2
MaxRuns == 2
MaxArgs == 3

----------------------------------------------------------------------------
(* Tokens *)

NL == "\n"
CR == "\r"
SP == " "
MARKER == "Code generated by"
HOLDER == "Jaeger"

\* datetime.today().year
CURRENT_YEAR == 2026

\* a year copyright notices of older files show
OTHER_YEAR == CURRENT_YEAR - 7

Years == {OTHER_YEAR, CURRENT_YEAR}

\* 'Copyright (c) %d' % y
CopyrightText(y) ==
    CASE y = CURRENT_YEAR -> "Copyright (c) 2026"
      [] y = OTHER_YEAR -> "Copyright (c) 2019"

\* the texts COPYRIGHT_RE matches
CopyrightTokens == {CopyrightText(y) : y \in Years}

\* int(m.group(1))
YearOf(tok) == CHOOSE y \in Years : CopyrightText(y) = tok

LICENSE_BLOB ==
    << <<CopyrightText(CURRENT_YEAR), SP, "The", SP, HOLDER, SP, "Authors.">>,
       <<>>,
       <<"Licensed under the Apache License, Version 2.0 (the License);">>,
       <<"you may not use this file except in compliance with the License.">>,
       <<"You may obtain a copy of the License at">>,
       <<>>,
       <<"http://www.apache.org/licenses/LICENSE-2.0">>,
       <<>>,
       <<"Unless required by applicable law or agreed to in writing, software">>,
       <<"distributed under the License is distributed on an AS IS BASIS,">>,
       <<"WITHOUT WARRANTIES OR CONDITIONS OF ANY KIND, either express or implied.">>,
       <<"See the License for the specific language governing permissions and">>,
       <<"limitations under the License.">> >>

Whitespace == {SP, NL, CR}

RECURSIVE LStrip(_)
LStrip(s) ==
    IF s # <<>> /\ Head(s) \in Whitespace THEN LStrip(Tail(s)) ELSE s

RECURSIVE RStrip(_)
RStrip(s) ==
    IF s # <<>> /\ s[Len(s)] \in Whitespace
    THEN RStrip(SubSeq(s, 1, Len(s) - 1))
    ELSE s

\* str.strip()
Strip(s) == RStrip(LStrip(s))

LICENSE_BLOB_LINES_GO ==
    [k \in 1..Len(LICENSE_BLOB) |-> Strip(<<"//", SP>> \o LICENSE_BLOB[k]) \o <<NL>>]

----------------------------------------------------------------------------
(* File input and output *)

Min(a, b) == IF a < b THEN a ELSE b

\* open(name) reads in text mode with universal newlines: '\r\n' and a
\* lone '\r' both come out as '\n'
RECURSIVE Translate(_)
Translate(s) ==
    IF s = <<>> THEN <<>>
    ELSE IF Head(s) = CR
    THEN IF Len(s) > 1 /\ s[2] = NL
         THEN <<NL>> \o Translate(SubSeq(s, 3, Len(s)))
         ELSE <<NL>> \o Translate(Tail(s))
    ELSE <<Head(s)>> \o Translate(Tail(s))

\* length of the first line of a non-empty text, terminator included
FirstLineLen(s) ==
    IF \E k \in 1..Len(s) : s[k] = NL
    THEN CHOOSE k \in 1..Len(s) : s[k] = NL /\ \A j \in 1..(k - 1) : s[j] # NL
    ELSE Len(s)

\* the lines of a text, each with its terminator
RECURSIVE SplitLines(_)
SplitLines(s) ==
    IF s = <<>> THEN <<>>
    ELSE <<SubSeq(s, 1, FirstLineLen(s))>>
             \o SplitLines(SubSeq(s, FirstLineLen(s) + 1, Len(s)))

\* list(f): the lines of a file's content, as text mode delivers them
ReadLines(s) == SplitLines(Translate(s))

\* for line in lines: f.write(line); on POSIX, where os.linesep is '\n',
\* text mode writes every character as it is
RECURSIVE WriteLines(_)
WriteLines(ls) ==
    IF ls = <<>> THEN <<>> ELSE Head(ls) \o WriteLines(Tail(ls))

----------------------------------------------------------------------------
(* update_go_license *)

Contains(line, tok) == \E k \in 1..Len(line) : line[k] = tok

\* COPYRIGHT_RE.search(line): position of the first match, 0 for no match
Search(line) ==
    IF \E k \in 1..Len(line) : line[k] \in CopyrightTokens
    THEN CHOOSE k \in 1..Len(line) :
             /\ line[k] \in CopyrightTokens
             /\ \A j \in 1..(k - 1) : line[j] \notin CopyrightTokens
    ELSE 0

\* the number of lines the scan looks at
WINDOW == 5

\* variant: only the first line is scanned
ScanWindowFirst(lines) == SubSeq(lines, 1, Min(1, Len(lines)))

\* lines[:5]
ScanWindow(lines) == SubSeq(lines, 1, Min(WINDOW, Len(lines)))

\* variant: the holder token is never recognised
HasHolderNever(line) == FALSE

\* 'Jaeger' in line
HasHolder(line) == Contains(line, HOLDER)

\* 'Code generated by' in lines[0]
HasMarker(line) == Contains(line, MARKER)

\* the loop over lines[:5]: it stops at the first matching line, whatever
\* its year
Scan(lines) ==
    LET w == ScanWindow(lines)
        hits == {k \in 1..Len(w) : Search(w[k]) # 0}
    IN  IF hits = {}
        THEN [found |-> FALSE, jaeger |-> FALSE, year |-> 0, at |-> 0]
        ELSE LET k == CHOOSE h \in hits : \A g \in hits : h <= g
             IN  [found |-> TRUE,
                  jaeger |-> HasHolder(w[k]),
                  year |-> YearOf(w[k][Search(w[k])]),
                  at |-> k]

\* the elements a slice assignment takes from a str: its characters
Chars(s) == [k \in 1..Len(s) |-> <<s[k]>>]

\* the elements lines[0:0] = header_lines inserts
Items(header) == IF header.list THEN header.items ELSE Chars(header.items)

\* variant: an empty list counts as having no marker line
ReplaceNoIndexError(lines, header) ==
    IF lines # <<>> /\ HasMarker(lines[1])
    THEN IF header.list
         THEN [exc |-> "none",
               lines |-> <<lines[1]>> \o <<<<NL>>>> \o header.items \o Tail(lines)]
         ELSE [exc |-> "TypeError", lines |-> lines]
    ELSE [exc |-> "none", lines |-> Items(header) \o lines]

\* replace(header_lines); header is [list |-> TRUE, items |-> a list of
\* lines] or [list |-> FALSE, items |-> a str].  lines[0] of an empty list
\* raises IndexError, ['\n'] + str raises TypeError.
Replace(lines, header) ==
    IF lines = <<>>
    THEN [exc |-> "IndexError", lines |-> lines]
    ELSE IF HasMarker(lines[1])
    THEN IF header.list
         THEN [exc |-> "none",
               lines |-> <<lines[1]>> \o <<<<NL>>>> \o header.items \o Tail(lines)]
         ELSE [exc |-> "TypeError", lines |-> lines]
    ELSE [exc |-> "none", lines |-> Items(header) \o lines]

\* LICENSE_BLOB_LINES_GO + ['\n']
FullHeader == [list |-> TRUE, items |-> LICENSE_BLOB_LINES_GO \o <<<<NL>>>>]

\* LICENSE_BLOB_LINES_GO[0], a str
SingleHeader == [list |-> FALSE, items |-> LICENSE_BLOB_LINES_GO[1]]

\* variant: an outdated year also asks for the single line
DecisionYearOutdated(s) ==
    IF ~s.found THEN "full"
    ELSE IF ~s.jaeger \/ s.year # CURRENT_YEAR THEN "single"
    ELSE "none"

\* the edit the scan decides: "none", "full" or "single"
Decision(s) ==
    IF ~s.found THEN "full"
    ELSE IF ~s.jaeger THEN "single"
    ELSE "none"

\* variant: changed is set whatever the edit
ChangedAlways(d) == TRUE

\* changed, once the edit d was made
ChangedFlag(d) == d # "none"

\* update_go_license(name) on file system fs: the exception it raises, the
\* file system it leaves, whether it printed the name
UpdateGoLicense(fs, name) ==
    IF name \notin DOMAIN fs
    THEN [exc |-> "FileNotFoundError", files |-> fs, printed |-> FALSE,
          existed |-> FALSE, before |-> <<>>, orig_lines |-> <<>>,
          lines |-> <<>>, decision |-> "none"]
    ELSE
    LET orig_lines == ReadLines(fs[name])
        d == Decision(Scan(orig_lines))
        r == IF d = "full" THEN Replace(orig_lines, FullHeader)
             ELSE IF d = "single" THEN Replace(orig_lines, SingleHeader)
             ELSE [exc |-> "none", lines |-> orig_lines]
        changed == r.exc = "none" /\ ChangedFlag(d)
    IN  [exc |-> r.exc,
         files |-> IF changed THEN [fs EXCEPT ![name] = WriteLines(r.lines)] ELSE fs,
         printed |-> changed,
         existed |-> TRUE, before |-> fs[name], orig_lines |-> orig_lines,
         lines |-> r.lines, decision |-> d]

\* the history record of one call
CallRecord(idx, name, u) ==
    [idx |-> idx, name |-> name, existed |-> u.existed, before |-> u.before,
     orig_lines |-> u.orig_lines, lines |-> u.lines, exc |-> u.exc,
     decision |-> u.decision, wrote |-> u.printed,
     after |-> IF name \in DOMAIN u.files THEN u.files[name] ELSE <<>>]

----------------------------------------------------------------------------
(* Inputs *)

LineKinds ==
    { <<"package foo">>,
      <<MARKER>>,
      <<CopyrightText(OTHER_YEAR)>>,
      <<CopyrightText(OTHER_YEAR), HOLDER>>,
      <<CopyrightText(CURRENT_YEAR)>>,
      <<CopyrightText(CURRENT_YEAR), HOLDER>> }

\* the lists of exactly n lines of the given kinds, each line terminated
RECURSIVE LinesOfLen(_, _)
LinesOfLen(kinds, n) ==
    IF n = 0 THEN {<<>>}
    ELSE {Append(ls, l \o <<NL>>) : ls \in LinesOfLen(kinds, n - 1), l \in kinds}

LinesUpTo(kinds, n) == UNION {LinesOfLen(kinds, k) : k \in 0..n}

Terminated(l) == l \o <<NL>>

\* the content with every line terminator '\n' made '\r\n'
RECURSIVE WithCRLF(_)
WithCRLF(s) ==
    IF s = <<>> THEN <<>>
    ELSE (IF Head(s) = NL THEN <<CR, NL>> ELSE <<Head(s)>>) \o WithCRLF(Tail(s))

\* the files update_go_license is tried on: an optional generated-file
\* marker line, up to WINDOW lines of other text, up to MaxBody lines of any
\* kind; the last line may lack its terminator; the terminators are all
\* '\n' or all '\r\n'
LongContents ==
    LET heads == {<<>>, <<Terminated(<<MARKER>>)>>}
        pads == LinesUpTo({<<"package foo">>}, WINDOW)
        bodies == LinesUpTo(LineKinds, MaxBody)
        whole == {WriteLines(h \o p \o b) : h \in heads, p \in pads, b \in bodies}
        lf == whole \cup {SubSeq(c, 1, Len(c) - 1) : c \in whole \ {<<>>}}
    IN  lf \cup {WithCRLF(c) : c \in lf}

\* the files main is tried on: empty, one line of any kind, and a
\* generated-file marker line followed by one line of any kind
MainContents ==
    {WriteLines(ls) : ls \in LinesUpTo(LineKinds, 1)}
        \cup {WriteLines(<<Terminated(<<MARKER>>), Terminated(l)>>) : l \in LineKinds}

GO == <<"a", ".go">>
GO2 == <<"b", ".go">>
TXT == <<"c", ".txt">>
Names == {GO, GO2, TXT}

RECURSIVE ArgsUpTo(_)
ArgsUpTo(n) ==
    IF n = 0 THEN {<<>>}
    ELSE LET prev == ArgsUpTo(n - 1)
         IN  prev \cup {Append(a, nm) : a \in {p \in prev : Len(p) = n - 1}, nm \in Names}

\* name.endswith(suffix)
EndsWith(name, suffix) == name[Len(name)] = suffix

----------------------------------------------------------------------------
(* main *)

Init ==
    /\ \E ca \in MainContents, cb \in MainContents,
          present \in SUBSET {GO, GO2} :
          files = [n \in present \cup {TXT} |->
                      IF n = GO THEN ca ELSE IF n = GO2 THEN cb ELSE <<"text", NL>>]
    /\ argv \in ArgsUpTo(MaxArgs)
    /\ i = 1
    /\ pc = "start"
    /\ stdout = <<>>
    /\ logged = <<>>
    /\ error = "none"
    /\ calls = <<>>
    /\ files0 = files

\* len(sys.argv) == 1: usage, sys.exit(1)
MainUsage ==
    /\ pc = "start"
    /\ Len(argv) = 0
    /\ stdout' = Append(stdout, <<"USAGE: ", "FILE ...">>)
    /\ pc' = "exit1"
    /\ UNCHANGED <<files, argv, i, logged, error, calls, files0>>

MainEnter ==
    /\ pc = "start"
    /\ Len(argv) > 0
    /\ pc' = "loop"
    /\ i' = 1
    /\ UNCHANGED <<files, argv, stdout, logged, error, calls, files0>>

\* variant: the error is logged and the loop goes on
MainContinueAfterError(u) == [pc |-> "loop", i |-> i + 1]

\* where main goes after the call: on, or out by raise error
MainAfterCall(u) ==
    IF u.exc = "none" THEN [pc |-> "loop", i |-> i + 1] ELSE [pc |-> "raised", i |-> i]

\* one iteration of the loop on a '.go' path

MainGo ==
    /\ pc = "loop"
    /\ i <= Len(argv)
    /\ EndsWith(argv[i], ".go")
    /\ LET u == UpdateGoLicense(files, argv[i])
       IN  /\ files' = u.files
           /\ stdout' = IF u.printed THEN Append(stdout, argv[i]) ELSE stdout
           /\ logged' = IF u.exc # "none" THEN Append(logged, argv[i]) ELSE logged
           /\ error' = u.exc
           /\ calls' = Append(calls, CallRecord(i, argv[i], u))
           /\ pc' = MainAfterCall(u).pc
           /\ i' = MainAfterCall(u).i
    /\ UNCHANGED <<argv, files0>>

\* one iteration on any other path: raise NotImplementedError
MainUnsupported ==
    /\ pc = "loop"
    /\ i <= Len(argv)
    /\ ~EndsWith(argv[i], ".go")
    /\ error' = "NotImplementedError"
    /\ pc' = "raised"
    /\ UNCHANGED <<files, argv, i, stdout, logged, calls, files0>>

MainExit ==
    /\ pc = "loop"
    /\ i > Len(argv)
    /\ pc' = "done"
    /\ UNCHANGED <<files, argv, i, stdout, logged, error, calls, files0>>

Next == MainUsage \/ MainEnter \/ MainGo \/ MainUnsupported \/ MainExit

Spec == Init /\ [][Next]_vars

----------------------------------------------------------------------------
(* update_go_license called repeatedly on one path by a caller that        *)
(* catches what it raises                                                  *)

InitFn ==
    /\ \/ \E c \in LongContents : files = [n \in {GO} |-> c]
       \/ files = [n \in {} |-> <<>>]
    /\ argv = <<GO>>
    /\ i = 1
    /\ pc = "fn"
    /\ stdout = <<>>
    /\ logged = <<>>
    /\ error = "none"
    /\ calls = <<>>
    /\ files0 = files

FnCall ==
    /\ pc = "fn"
    /\ i <= MaxRuns
    /\ LET u == UpdateGoLicense(files, argv[1])
       IN  /\ files' = u.files
           /\ stdout' = IF u.printed THEN Append(stdout, argv[1]) ELSE stdout
           /\ error' = u.exc
           /\ calls' = Append(calls, CallRecord(i, argv[1], u))
    /\ i' = i + 1
    /\ UNCHANGED <<argv, pc, logged, files0>>

NextFn == FnCall

SpecFn == InitFn /\ [][NextFn]_vars

----------------------------------------------------------------------------
(* Vocabulary of the properties, stated on the history of calls: each    *)
(* property speaks of the content of the file before and after a call      *)

Call(k) == calls[k]
CallIds == 1..Len(calls)

\* the lines of a content as they stand in the file: each ends with its
\* '\n', the last one possibly with none
RECURSIVE RawLines(_)
RawLines(s) ==
    IF s = <<>> THEN <<>>
    ELSE LET ends == {k \in 1..Len(s) : s[k] = "\n"}
             n == IF ends = {} THEN Len(s)
                  ELSE CHOOSE k \in ends : \A j \in ends : k <= j
         IN  <<SubSeq(s, 1, n)>> \o RawLines(SubSeq(s, n + 1, Len(s)))

\* the original lines of the file the call was made on
Original(c) == RawLines(c.before)

\* the line shows a copyright notice
ShowsCopyright(line) == \E t \in 1..Len(line) : line[t] \in CopyrightTokens

\* the index (from 1) of the first line among the first five that shows a
\* copyright notice, 0 when there is none
FirstMatch(ls) ==
    LET hits == {k \in 1..Len(ls) : k <= 5 /\ ShowsCopyright(ls[k])}
    IN  IF hits = {} THEN 0 ELSE CHOOSE h \in hits : \A g \in hits : h <= g

\* the year the first notice of the line shows
ShownYear(line) ==
    LET t == CHOOSE t \in 1..Len(line) :
                 /\ line[t] \in CopyrightTokens
                 /\ \A j \in 1..(t - 1) : line[j] \notin CopyrightTokens
    IN  IF line[t] = "Copyright (c) 2026" THEN CURRENT_YEAR ELSE OTHER_YEAR

ShowsHolder(line) == \E t \in 1..Len(line) : line[t] = "Jaeger"
ShowsMarker(line) == \E t \in 1..Len(line) : line[t] = "Code generated by"

\* the concatenation of lines
RECURSIVE Joined(_)
Joined(ls) == IF ls = <<>> THEN <<>> ELSE Head(ls) \o Joined(Tail(ls))

BlankLine == <<"\n">>
HeaderLines == LICENSE_BLOB_LINES_GO
FirstTemplateLine ==
    <<"//", " ", "Copyright (c) 2026", " ", "The", " ", "Jaeger", " ", "Authors.", "\n">>

\* the call found the file and no notice in its first five lines
NoNotice(c) == c.existed /\ FirstMatch(Original(c)) = 0

\* the call found a first notice of the given kind
Notice(c, currentYear, holder) ==
    /\ c.existed
    /\ FirstMatch(Original(c)) # 0
    /\ LET l == Original(c)[FirstMatch(Original(c))]
       IN  /\ (ShownYear(l) = CURRENT_YEAR) = currentYear
           /\ ShowsHolder(l) = holder

MarkerFirst(c) == Original(c) # <<>> /\ ShowsMarker(Original(c)[1])

Untouched(c) == ~c.wrote /\ c.after = c.before

\* the file of the call has '\r\n' terminators
HasCR(c) == \E t \in 1..Len(c.before) : c.before[t] = "\r"

----------------------------------------------------------------------------
(* Properties of update_go_license, under SpecFn *)

\* C1: a file with no copyright notice in its first five lines is rewritten
\* and reported; the new content is the full header and a blank line before
\* the original lines, or, when line 0 holds the generated-file marker, the
\* marker line, a blank line, the full header, a blank line and the
\* original lines from index 1 on.
C1_FullHeaderInserted ==
    \A k \in CallIds :
        NoNotice(Call(k)) =>
            /\ Call(k).wrote
            /\ Call(k).after =
                 Joined(IF MarkerFirst(Call(k))
                        THEN <<Original(Call(k))[1], BlankLine>> \o HeaderLines
                                 \o <<BlankLine>> \o Tail(Original(Call(k)))
                        ELSE HeaderLines \o <<BlankLine>> \o Original(Call(k)))

\* C2 as stated: a file whose first notice shows the current year is left
\* identical and not reported, with or without the holder token.
C2_CurrentYearUntouched ==
    \A k \in CallIds :
        (Notice(Call(k), TRUE, TRUE) \/ Notice(Call(k), TRUE, FALSE)) => Untouched(Call(k))

\* C2 amended: a file whose first notice shows the current year and holds
\* the holder token is left identical and not reported.
C2_CurrentYearHolderUntouched ==
    \A k \in CallIds : Notice(Call(k), TRUE, TRUE) => Untouched(Call(k))

C2_Witness ==
    \E k \in CallIds : Notice(Call(k), TRUE, TRUE) /\ Call(k).idx = 1 /\ Call(k).exc = "none"

\* C3: a file whose first notice shows another year and holds the holder
\* token is left unchanged and not reported.
C3_OtherYearHolderUntouched ==
    \A k \in CallIds : Notice(Call(k), FALSE, TRUE) => Untouched(Call(k))

C3_Witness ==
    \E k \in CallIds :
        /\ Notice(Call(k), FALSE, TRUE)
        /\ FirstMatch(Original(Call(k))) > 1
        /\ Call(k).exc = "none"

\* C4: a file without the marker on line 0 whose first notice shows a past
\* year and lacks the holder token is rewritten to the first template line
\* followed by all its original lines, nothing else, and is reported.
C4_SingleLineInserted ==
    \A k \in CallIds :
        (Notice(Call(k), FALSE, FALSE) /\ ~MarkerFirst(Call(k))) =>
            /\ Call(k).wrote
            /\ Call(k).after = Joined(<<FirstTemplateLine>> \o Original(Call(k)))
            /\ RawLines(Call(k).after) = <<FirstTemplateLine>> \o Original(Call(k))

\* C5: a file with the marker on line 0 whose first notice shows a past year
\* and lacks the holder token gets a blank line and the first template line
\* inserted at index 1, the marker line staying first, and is reported.
C5_SingleLineAfterMarker ==
    \A k \in CallIds :
        (Notice(Call(k), FALSE, FALSE) /\ MarkerFirst(Call(k))) =>
            /\ Call(k).wrote
            /\ Call(k).after =
                 Joined(<<Original(Call(k))[1], BlankLine, FirstTemplateLine>>
                            \o Tail(Original(Call(k))))

\* C6: a second run on the same path never writes the file and never
\* reports it; the content after two runs is the content after one.
C6_Idempotent ==
    \A k \in CallIds :
        k > 1 =>
            /\ ~Call(k).wrote
            /\ Call(k).before = Call(k - 1).after
            /\ Call(k).after = Call(k - 1).after

C6_Witness ==
    /\ Len(calls) >= 2
    /\ Call(1).wrote
    /\ MarkerFirst(Call(1))
    /\ files[Call(1).name] = Call(1).after

\* C9: a rewrite keeps every original line, unmodified and in order: the
\* new content is the original content with one block inserted at index 0
\* or at index 1 (before the first line or right after it), nothing of the
\* original deleted or altered.
C9_OriginalLinesKept ==
    \A k \in CallIds :
        Call(k).wrote =>
            LET b == Call(k).before
                a == Call(k).after
            IN  /\ Len(a) > Len(b)
                /\ \E cut \in {0, Len(Joined(SubSeq(Original(Call(k)), 1, 1)))} :
                       /\ SubSeq(a, 1, cut) = SubSeq(b, 1, cut)
                       /\ SubSeq(a, Len(a) - (Len(b) - cut) + 1, Len(a))
                            = SubSeq(b, cut + 1, Len(b))

----------------------------------------------------------------------------
(* Properties of main, under Spec *)

\* the paths the calls so far printed, in order
RECURSIVE Printed(_)
Printed(cs) ==
    IF cs = <<>> THEN <<>>
    ELSE IF Head(cs).wrote THEN <<Head(cs).name>> \o Printed(Tail(cs))
    ELSE Printed(Tail(cs))

\* the content the calls so far left in the file named n
LastContent(n) ==
    LET on == {k \in CallIds : Call(k).name = n}
    IN  IF on = {} THEN files0[n]
        ELSE Call(CHOOSE k \in on : \A j \in on : j <= k).after

\* C7: main takes the paths in order, one call each; the first path that
\* fails (not a '.go' path, or update_go_license raises) ends the
\* invocation with that error; no later path is read, written or printed,
\* nothing is retried, and earlier files keep the rewrite they received.
C7_FailFast ==
    /\ Len(calls) <= Len(argv)
    /\ \A k \in CallIds :
           /\ Call(k).idx = k
           /\ Call(k).name = argv[k]
           /\ EndsWith(argv[k], ".go")
           /\ Call(k).exc # "none" =>
                  /\ k = Len(calls)
                  /\ pc = "raised"
                  /\ error = Call(k).exc
                  /\ i = k
    /\ (error # "none") = (pc = "raised")
    /\ pc = "raised" =>
           /\ i \in 1..Len(argv)
           /\ \/ /\ ~EndsWith(argv[i], ".go")
                 /\ error = "NotImplementedError"
                 /\ Len(calls) = i - 1
              \/ /\ Len(calls) = i
                 /\ Call(i).exc # "none"
    /\ pc = "done" => Len(calls) = Len(argv)
    /\ pc # "exit1" => stdout = Printed(calls)
    /\ DOMAIN files = DOMAIN files0
    /\ \A n \in DOMAIN files : files[n] = LastContent(n)

C7_Witness ==
    /\ pc = "raised"
    /\ i = 2
    /\ i < Len(argv)
    /\ Len(calls) = 2
    /\ Call(1).wrote
    /\ argv[3] \in DOMAIN files
    /\ argv[3] # argv[1]
    /\ argv[3] # argv[2]

\* C8: in one invocation each file is written at most once, duplicates in
\* the argument list included, and only when the edit is an insertion.
C8_WrittenAtMostOnce ==
    /\ \A n \in Names : Cardinality({k \in CallIds : Call(k).name = n /\ Call(k).wrote}) <= 1
    /\ \A k \in CallIds :
           Call(k).wrote =>
               /\ Call(k).decision \in {"full", "single"}
               /\ Len(Call(k).lines) > Len(Call(k).orig_lines)
               /\ Call(k).after # Call(k).before

C8_Witness ==
    \E j, k \in CallIds :
        /\ j < k
        /\ Call(j).name = Call(k).name
        /\ Call(j).wrote
        /\ Call(k).exc = "none"

\* C10: on an empty file update_go_license raises IndexError before any
\* write: the file stays empty and is not reported; main logs the failure
\* and ends the invocation there.
C10_EmptyFileRaises ==
    \A k \in CallIds :
        (Call(k).existed /\ Call(k).before = <<>>) =>
            /\ Call(k).exc = "IndexError"
            /\ ~Call(k).wrote
            /\ Call(k).after = <<>>
            /\ files[Call(k).name] = <<>>
            /\ k = Len(calls)
            /\ stdout = Printed(SubSeq(calls, 1, k - 1))
            /\ logged = <<Call(k).name>>
            /\ error = "IndexError"
            /\ pc = "raised"

C10_Witness ==
    \E k \in CallIds :
        /\ Call(k).existed
        /\ Call(k).before = <<>>
        /\ k > 1
        /\ k < Len(argv)
        /\ pc = "raised"

====
